---- MODULE Spec2Model ----
(***************************************************************************)
(* The two notebooks of the repository as one state machine.               *)
(*                                                                         *)
(*   "sql"      : the SQLite notebook (src/unnamed/part_000)               *)
(*   "advanced" : the Thai-cuisine notebook (src/agno_agent_advanced.ipynb)*)
(*                                                                         *)
(* A notebook is executed top to bottom; an uncaught exception stops the   *)
(* execution.  The kernel state (agent, temp_agent, the environment        *)
(* variable, what was printed) is lost between executions; the files the   *)
(* notebooks write (example.db, the LanceDb table tmp/lancedb/recipes) are *)
(* kept.  Every call into the agno framework (Agent.run,                   *)
(* Agent.print_response, knowledge.load) is an external call: the model    *)
(* records that it was issued and draws its outcome (it returns, or it     *)
(* raises) nondeterministically.                                           *)
(***************************************************************************)
EXTENDS Integers, Sequences, FiniteSets, TLC

\* How many times a notebook is executed against the same files.
MaxExecutions == 2
\* The most documents one load() can add to the index.
MaxAdded == 2

VARIABLES
    notebook,        \* the notebook being executed
    pc,              \* the statement the execution is at
    OPENAI_API_KEY,  \* os.getenv("OPENAI_API_KEY") after load_dotenv
    agent,           \* the kernel's `agent`
    temp_agent,      \* the kernel's `temp_agent`
    index,           \* the LanceDb table "recipes" under tmp/lancedb (on disk)
    db,              \* example.db (on disk)
    calls,           \* run / print_response calls issued in this execution
    log,             \* "Added n documents" lines of this execution, as the n's
    raised,          \* the uncaught exception that stopped the execution
    stdout,          \* what print() wrote in this execution
    executions       \* executions started so far

vars == <<notebook, pc, OPENAI_API_KEY, agent, temp_agent, index, db, calls,
          log, raised, stdout, executions>>

Notebooks == {"sql", "advanced"}

\* os.getenv gives None for an unset variable, else its string (maybe empty).
KeyValues == {"None", "", "sk-key"}

\* Python's `not v` for v = None or a string.
PyNot(v) == v \in {"None", ""}

Outcomes == {"returned", "raised"}

Undefined == [defined |-> FALSE]

first_query == "How do I make chicken and galangal in coconut milk soup"
second_query == "What is the history of Thai curry?"
sql_query_1 == "Get all customers and their orders"
sql_query_2 == "Get all customers and their total amount spent on their orders."

\* Agent(model=OpenAIChat("gpt-4o-mini", api_key=...), tools=[SQLTools], markdown=False)
SqlAgent(key) ==
    [defined |-> TRUE, model |-> "gpt-4o-mini", api_key |-> key,
     knowledge |-> "None", tools |-> "SQLTools", markdown |-> FALSE]

\* agent = Agent(..., knowledge=PDFUrlKnowledgeBase(...LanceDb recipes), markdown=True)
ThaiAgent(key) ==
    [defined |-> TRUE, model |-> "gpt-4o-mini", api_key |-> key,
     knowledge |-> "recipes", tools |-> "DuckDuckGoTools", markdown |-> TRUE]

\* The fallback agent built as a copy of `agent`, markdown left enabled.
TempAgentKeepsMarkdown(a) ==
    [defined |-> TRUE, model |-> "gpt-4o-mini", api_key |-> a.api_key,
     knowledge |-> a.knowledge, tools |-> "DuckDuckGoTools", markdown |-> TRUE]

\* temp_agent = Agent(..., knowledge=agent.knowledge, markdown=False)
TempAgent(a) ==
    [defined |-> TRUE, model |-> "gpt-4o-mini", api_key |-> a.api_key,
     knowledge |-> a.knowledge, tools |-> "DuckDuckGoTools", markdown |-> FALSE]

\* One call of run / print_response, as the framework sees it.
Call(fn, who, a, query, outcome) ==
    [fn |-> fn, who |-> who, markdown |-> a.markdown, knowledge |-> a.knowledge,
     api_key |-> a.api_key, query |-> query, outcome |-> outcome]

\* The rows the first cell of the SQL notebook inserts (amounts in cents).
fixture_customers ==
    { [id |-> 1, name |-> "John Doe", email |-> "john@example.com"],
      [id |-> 2, name |-> "Jane Smith", email |-> "jane@example.com"] }

fixture_orders ==
    { [id |-> 1, customer_id |-> 1, product |-> "Laptop", amount |-> 99999],
      [id |-> 2, customer_id |-> 1, product |-> "Mouse", amount |-> 1999],
      [id |-> 3, customer_id |-> 2, product |-> "Keyboard", amount |-> 4999] }

\* SELECT * FROM customers JOIN orders with the ON clause left out: every
\* customer paired with every order.
JoinWithoutOn(d) ==
    { [customer_id |-> p[1].id, customer_name |-> p[1].name,
       customer_email |-> p[1].email, order_id |-> p[2].id,
       product |-> p[2].product, amount |-> p[2].amount] :
      p \in d.customers \X d.orders }

\* SELECT * FROM customers JOIN orders ON customers.id = orders.customer_id
Join(d) ==
    { [customer_id |-> p[1].id, customer_name |-> p[1].name,
       customer_email |-> p[1].email, order_id |-> p[2].id,
       product |-> p[2].product, amount |-> p[2].amount] :
      p \in { q \in d.customers \X d.orders : q[1].id = q[2].customer_id } }

RECURSIVE SumAmount(_)
SumAmount(O) ==
    IF O = {} THEN 0
    ELSE LET o == CHOOSE x \in O : TRUE
         IN  o.amount + SumAmount(O \ {o})

\* SELECT c.name, SUM(o.amount) FROM customers c JOIN orders o
\* ON c.id = o.customer_id GROUP BY ...
Totals(d) ==
    { [customer_id |-> c.id, customer_name |-> c.name,
       total |-> SumAmount({ o \in d.orders : o.customer_id = c.id })] :
      c \in { x \in d.customers :
                 \E o \in d.orders : o.customer_id = x.id } }

\* The rows of a result as the answer lists them, by customer then by order.
RECURSIVE JoinRows(_)
JoinRows(S) ==
    IF S = {} THEN <<>>
    ELSE LET r == CHOOSE x \in S : \A y \in S :
                      \/ x.customer_id < y.customer_id
                      \/ x.customer_id = y.customer_id
                           /\ x.order_id <= y.order_id
         IN  <<r>> \o JoinRows(S \ {r})

RECURSIVE TotalRows(_)
TotalRows(S) ==
    IF S = {} THEN <<>>
    ELSE LET r == CHOOSE x \in S : \A y \in S : x.customer_id <= y.customer_id
         IN  <<r>> \o TotalRows(S \ {r})

\* response.content: the rows the query named in the notebook gives on d.
Content(query, d) ==
    [query |-> query,
     rows |-> IF query = sql_query_1 THEN JoinRows(Join(d))
              ELSE TotalRows(Totals(d))]

\* The table printed under cell c5811f68.
printed_orders ==
    << [customer_id |-> 1, customer_name |-> "John Doe",
        customer_email |-> "john@example.com", order_id |-> 1,
        product |-> "Laptop", amount |-> 99999],
       [customer_id |-> 1, customer_name |-> "John Doe",
        customer_email |-> "john@example.com", order_id |-> 2,
        product |-> "Mouse", amount |-> 1999],
       [customer_id |-> 2, customer_name |-> "Jane Smith",
        customer_email |-> "jane@example.com", order_id |-> 3,
        product |-> "Keyboard", amount |-> 4999] >>

\* The table printed under cell 1361de2c.
printed_totals ==
    << [customer_id |-> 1, customer_name |-> "John Doe", total |-> 101998],
       [customer_id |-> 2, customer_name |-> "Jane Smith", total |-> 4999] >>

FirstStatement(nb) == IF nb = "sql" THEN "sql_db" ELSE "adv_env"

Init ==
    /\ notebook \in Notebooks
    /\ pc = FirstStatement(notebook)
    /\ OPENAI_API_KEY = "None"
    /\ agent = Undefined
    /\ temp_agent = Undefined
    /\ index = [loads |-> 0, docs |-> 0]
    /\ db = [customers |-> {}, orders |-> {}]
    /\ calls = <<>>
    /\ log = <<>>
    /\ raised = "None"
    /\ stdout = <<>>
    /\ executions = 1

(***************************************************************************)
(* The SQL notebook.                                                       *)
(***************************************************************************)

\* Cell 38240428: CREATE TABLE IF NOT EXISTS twice, five INSERTs with explicit
\* primary keys, commit.  An INSERT of a key the table already holds raises
\* IntegrityError before the commit, and nothing is written.
SqlSetupDatabase ==
    /\ notebook = "sql" /\ pc = "sql_db"
    /\ IF \E c \in db.customers : c.id \in {r.id : r \in fixture_customers}
       THEN /\ raised' = "IntegrityError"
            /\ pc' = "crashed"
            /\ db' = db
       ELSE /\ db' = [customers |-> db.customers \cup fixture_customers,
                      orders |-> db.orders \cup fixture_orders]
            /\ pc' = "sql_env"
            /\ raised' = raised
    /\ UNCHANGED <<notebook, OPENAI_API_KEY, agent, temp_agent, index, calls,
                   log, stdout, executions>>

\* Cell 89d2caea, first half: load_dotenv(); openai_api_key = os.getenv(...);
\* if not openai_api_key: raise ValueError.
SqlLoadKey ==
    /\ notebook = "sql" /\ pc = "sql_env"
    /\ \E v \in KeyValues :
        /\ OPENAI_API_KEY' = v
        /\ IF PyNot(v)
           THEN raised' = "ValueError" /\ pc' = "crashed"
           ELSE raised' = raised /\ pc' = "sql_agent"
    /\ UNCHANGED <<notebook, agent, temp_agent, index, db, calls, log, stdout,
                   executions>>

\* Cell 89d2caea, second half: agent = Agent(...).
SqlCreateAgent ==
    /\ notebook = "sql" /\ pc = "sql_agent"
    /\ agent' = SqlAgent(OPENAI_API_KEY)
    /\ pc' = "sql_query1"
    /\ UNCHANGED <<notebook, OPENAI_API_KEY, temp_agent, index, db, calls, log,
                   raised, stdout, executions>>

\* response = agent.run(query); print(response.content)
SqlRun(at, query, next) ==
    /\ notebook = "sql" /\ pc = at
    /\ \E o \in Outcomes :
        /\ calls' = Append(calls, Call("run", "agent", agent, query, o))
        /\ IF o = "returned"
           THEN /\ stdout' = Append(stdout, Content(query, db))
                /\ pc' = next
                /\ raised' = raised
           ELSE /\ stdout' = stdout
                /\ pc' = "crashed"
                /\ raised' = "Exception"
    /\ UNCHANGED <<notebook, OPENAI_API_KEY, agent, temp_agent, index, db, log,
                   executions>>

\* Cell c5811f68.
SqlQuery1 == SqlRun("sql_query1", sql_query_1, "sql_query2")

\* Cell 1361de2c.
SqlQuery2 == SqlRun("sql_query2", sql_query_2, "done")

(***************************************************************************)
(* The advanced notebook.                                                  *)
(***************************************************************************)

\* Cell ea8e8125: load_dotenv(override=True);
\* os.environ["OPENAI_API_KEY"] = os.getenv("OPENAI_API_KEY").
\* Assigning None to os.environ raises TypeError; any string is accepted.
AdvLoadKey ==
    /\ notebook = "advanced" /\ pc = "adv_env"
    /\ \E v \in KeyValues :
        /\ OPENAI_API_KEY' = v
        /\ IF v = "None"
           THEN raised' = "TypeError" /\ pc' = "crashed"
           ELSE raised' = raised /\ pc' = "adv_agent"
    /\ UNCHANGED <<notebook, agent, temp_agent, index, db, calls, log, stdout,
                   executions>>

\* Cell 8c02f089: agent = Agent(...).
AdvCreateAgent ==
    /\ notebook = "advanced" /\ pc = "adv_agent"
    /\ agent' = ThaiAgent(OPENAI_API_KEY)
    /\ pc' = "adv_load"
    /\ UNCHANGED <<notebook, OPENAI_API_KEY, temp_agent, index, db, calls, log,
                   raised, stdout, executions>>

\* A load() that treats an ingestion of zero documents as a failure.
LoadFailsOnEmpty(n) ==
    /\ log' = Append(log, n)
    /\ IF n = 0
       THEN pc' = "crashed" /\ raised' = "ValueError"
       ELSE pc' = "adv_query1" /\ raised' = raised

\* What load() does to the execution once it has added n documents: it logs
\* the count and returns None; the count is not looked at.
LoadReturns(n) ==
    /\ log' = Append(log, n)
    /\ pc' = "adv_query1"
    /\ raised' = raised

\* Cell 021d96a0: if agent.knowledge is not None: agent.knowledge.load()
AdvLoad ==
    /\ notebook = "advanced" /\ pc = "adv_load"
    /\ IF agent.knowledge # "None"
       THEN \E n \in 0..MaxAdded :
               /\ index' = [loads |-> index.loads + 1, docs |-> index.docs + n]
               /\ LoadReturns(n)
       ELSE /\ index' = index
            /\ log' = log
            /\ pc' = "adv_query1"
            /\ raised' = raised
    /\ UNCHANGED <<notebook, OPENAI_API_KEY, agent, temp_agent, db, calls,
                   stdout, executions>>

\* agent.print_response(first_query, stream=True), outside any try.
AdvQuery1 ==
    /\ notebook = "advanced" /\ pc = "adv_query1"
    /\ \E o \in Outcomes :
        /\ calls' = Append(calls, Call("print_response", "agent", agent,
                                       first_query, o))
        /\ IF o = "returned"
           THEN pc' = "adv_query2" /\ raised' = raised
           ELSE pc' = "crashed" /\ raised' = "Exception"
    /\ UNCHANGED <<notebook, OPENAI_API_KEY, agent, temp_agent, index, db, log,
                   stdout, executions>>

\* try: agent.print_response(second_query, stream=True); except Exception: ...
AdvQuery2 ==
    /\ notebook = "advanced" /\ pc = "adv_query2"
    /\ \E o \in Outcomes :
        /\ calls' = Append(calls, Call("print_response", "agent", agent,
                                       second_query, o))
        /\ pc' = IF o = "returned" THEN "done" ELSE "adv_except"
    /\ UNCHANGED <<notebook, OPENAI_API_KEY, agent, temp_agent, index, db, log,
                   raised, stdout, executions>>

\* The except branch up to the retry: print the notice, build temp_agent.
AdvExcept ==
    /\ notebook = "advanced" /\ pc = "adv_except"
    /\ stdout' = Append(stdout, "Encountered an error with markdown formatting. Retrying without markdown...")
    /\ temp_agent' = TempAgent(agent)
    /\ pc' = "adv_retry"
    /\ UNCHANGED <<notebook, OPENAI_API_KEY, agent, index, db, calls, log,
                   raised, executions>>

\* A recovery that only renders the answer it already has again, without
\* calling print_response a second time.
AdvRetryRendersOnly ==
    /\ notebook = "advanced" /\ pc = "adv_retry"
    /\ pc' = "done"
    /\ UNCHANGED <<notebook, OPENAI_API_KEY, agent, temp_agent, index, db,
                   calls, log, raised, stdout, executions>>

\* temp_agent.print_response(second_query, stream=True), inside the handler.
AdvRetry ==
    /\ notebook = "advanced" /\ pc = "adv_retry"
    /\ \E o \in Outcomes :
        /\ calls' = Append(calls, Call("print_response", "temp_agent",
                                       temp_agent, second_query, o))
        /\ IF o = "returned"
           THEN pc' = "done" /\ raised' = raised
           ELSE pc' = "crashed" /\ raised' = "Exception"
    /\ UNCHANGED <<notebook, OPENAI_API_KEY, agent, temp_agent, index, db, log,
                   stdout, executions>>

(***************************************************************************)
(* Executing a notebook again: a fresh kernel, the same files.             *)
(***************************************************************************)
Restart ==
    /\ pc \in {"done", "crashed"}
    /\ executions < MaxExecutions
    /\ executions' = executions + 1
    /\ \E nb \in Notebooks :
        /\ notebook' = nb
        /\ pc' = FirstStatement(nb)
    /\ OPENAI_API_KEY' = "None"
    /\ agent' = Undefined
    /\ temp_agent' = Undefined
    /\ calls' = <<>>
    /\ log' = <<>>
    /\ raised' = "None"
    /\ stdout' = <<>>
    /\ UNCHANGED <<index, db>>

Next ==
    \/ SqlSetupDatabase
    \/ SqlLoadKey
    \/ SqlCreateAgent
    \/ SqlQuery1
    \/ SqlQuery2
    \/ AdvLoadKey
    \/ AdvCreateAgent
    \/ AdvLoad
    \/ AdvQuery1
    \/ AdvQuery2
    \/ AdvExcept
    \/ AdvRetry
    \/ Restart

Spec == Init /\ [][Next]_vars

(***************************************************************************)
(* Properties.                                                             *)
(***************************************************************************)

TypeOK ==
    /\ notebook \in Notebooks
    /\ OPENAI_API_KEY \in KeyValues
    /\ index.loads \in 0..MaxExecutions
    /\ index.docs \in 0..(MaxExecutions * MaxAdded)
    /\ Len(calls) <= 3
    /\ Len(log) <= 1
    /\ executions \in 1..MaxExecutions

AllReturned == \A i \in 1..Len(calls) : calls[i].outcome = "returned"

\* C6, as stated: once load() has added zero documents, every run issued
\* afterwards in that execution completes instead of raising.
C6_RunAfterEmptyIngestionCompletes ==
    (notebook = "advanced" /\ log = <<0>>) => AllReturned

\* C6, amended: when load() adds zero documents it only logs the count and
\* returns; nothing is raised by it, the first query is issued next on the
\* same agent with the knowledge base still attached, and the only thing that
\* stops the execution afterwards is an exception raised by a query.
C6_EmptyIngestionDoesNotStopQueries ==
    (notebook = "advanced" /\ log = <<0>>) =>
        /\ agent.knowledge = "recipes"
        /\ pc \in {"adv_query1", "adv_query2", "adv_except", "adv_retry",
                   "done", "crashed"}
        /\ (pc = "adv_query1" => raised = "None" /\ calls = <<>>)
        /\ (pc # "adv_query1" =>
               /\ Len(calls) >= 1
               /\ calls[1] = Call("print_response", "agent", agent,
                                  first_query, calls[1].outcome))
        /\ (pc = "crashed" =>
               /\ raised = "Exception"
               /\ calls[Len(calls)].outcome = "raised")

\* The execution recorded in the notebook: zero documents added, both queries
\* answered, no exception.
C6_Witness ==
    /\ notebook = "advanced" /\ log = <<0>> /\ index.docs = 0
    /\ pc = "done" /\ raised = "None"
    /\ Len(calls) = 2 /\ AllReturned

\* C7, as stated: whenever a print_response with markdown enabled raises, the
\* error is not propagated, and the handling ends with exactly one retry of the
\* same query with markdown disabled, which returns an answer.
C7_FormatErrorAlwaysRecovered ==
    \A i \in 1..Len(calls) :
        (calls[i].markdown /\ calls[i].outcome = "raised") =>
            /\ raised = "None"
            /\ (pc \in {"done", "crashed"} =>
                   /\ pc = "done"
                   /\ Len(calls) = i + 1
                   /\ ~calls[i + 1].markdown
                   /\ calls[i + 1].query = calls[i].query
                   /\ calls[i + 1].outcome = "returned")

\* C7, amended: only the second query is guarded.  An exception of its
\* print_response is followed by exactly one retry of that query, on
\* temp_agent, with markdown disabled and the same knowledge base; the
\* execution then ends without error exactly when the retry returns.  An
\* exception of the first query is not retried and stops the execution.
C7_OnlySecondQueryRetriedOnce ==
    notebook = "advanced" =>
        /\ Len(calls) <= 3
        /\ \A i \in 1..Len(calls) :
               (~calls[i].markdown \/ calls[i].who = "temp_agent") =>
                   /\ i = 3
                   /\ calls[2].outcome = "raised"
                   /\ calls[2].query = second_query
                   /\ calls[i] = Call("print_response", "temp_agent",
                                      [agent EXCEPT !.markdown = FALSE],
                                      second_query, calls[i].outcome)
        /\ (Len(calls) >= 2 /\ calls[2].outcome = "raised"
              /\ pc \in {"done", "crashed"}) =>
               /\ Len(calls) = 3
               /\ ~calls[3].markdown
               /\ (pc = "done" <=> calls[3].outcome = "returned")
               /\ (pc = "done" => raised = "None")
        /\ (Len(calls) >= 1 /\ calls[1].outcome = "raised") =>
               /\ Len(calls) = 1
               /\ pc = "crashed"
               /\ raised = "Exception"

\* The second query raised, the retry without markdown returned, and the
\* execution ended without error.
C7_Witness ==
    /\ notebook = "advanced" /\ pc = "done" /\ raised = "None"
    /\ Len(calls) = 3
    /\ calls[2].markdown /\ calls[2].outcome = "raised"
    /\ ~calls[3].markdown /\ calls[3].outcome = "returned"

\* C9, as stated: while the credential is missing (what the SQL notebook's
\* check calls missing: `not openai_api_key`), no agent has been constructed
\* and no load, run or print_response has been issued.
C9_NothingStartsWithoutCredential ==
    PyNot(OPENAI_API_KEY) =>
        /\ agent = Undefined
        /\ temp_agent = Undefined
        /\ calls = <<>>
        /\ log = <<>>

\* C10, as stated: over the lifetime of the index there is at most one
\* ingestion attempt.
C10_SingleIngestionPerIndex == index.loads <= 1

\* The second answer of the SQL notebook is the table printed under its cell.
TotalsAsPrinted ==
    (notebook = "sql" /\ Len(stdout) = 2) => stdout[2].rows = printed_totals

C12_RecoveryRendersOnly ==
    (notebook = "advanced" /\ Len(calls) >= 2 /\ calls[2].outcome = "raised") =>
        /\ Len(calls) = 2
        /\ temp_agent = Undefined

\* One step of the except branch of cell 021d96a0, as the amended C12 reads it.
RecoveryStep ==
    pc \in {"adv_except", "adv_retry"} =>
          /\ agent' = agent
          /\ OPENAI_API_KEY' = OPENAI_API_KEY
          /\ index' = index /\ log' = log /\ db' = db
          /\ (pc = "adv_except" =>
                /\ calls' = calls
                /\ temp_agent = Undefined
                /\ temp_agent' = [agent EXCEPT !.markdown = FALSE])
          /\ (pc = "adv_retry" =>
                /\ temp_agent' = temp_agent
                /\ Len(calls') = Len(calls) + 1
                /\ SubSeq(calls', 1, Len(calls)) = calls
                /\ calls'[Len(calls')].fn = "print_response"
                /\ calls'[Len(calls')].who = "temp_agent"
                /\ ~calls'[Len(calls')].markdown
                /\ calls'[Len(calls')].query = calls[Len(calls)].query
                /\ calls'[Len(calls')].knowledge = agent.knowledge)

\* C12, amended: the recovery re-executes the whole run on a second agent.
\* The handler first builds temp_agent, equal to agent in everything but
\* markdown, without issuing a call; the retry then issues one more
\* print_response of the same query through temp_agent.  Neither step touches
\* agent, the credential, the index (load() is not called again), the
\* ingestion log or the database.
C12_RecoveryReRunsOnSecondAgent == [][RecoveryStep]_vars

\* The recovery has run: a second agent exists beside the first, the query was
\* issued a second time through it, and the index was loaded once.
C12_Witness ==
    /\ notebook = "advanced" /\ executions = 1
    /\ agent.defined /\ temp_agent.defined
    /\ agent.markdown /\ ~temp_agent.markdown
    /\ Len(calls) = 3 /\ calls[3].who = "temp_agent"
    /\ calls[3].query = calls[2].query
    /\ index.loads = 1 /\ Len(log) = 1

====
